---- MODULE Spec2Model ----
(***************************************************************************)
(* Model of the question -> SQL -> execution -> analytics pipeline of      *)
(* app/projects/services/data_upload_api.py, together with the dialect     *)
(* connectors (app/projects/connectors) and the response cache             *)
(* (app/db/response_logs).                                                 *)
(*                                                                         *)
(* The endpoints are coroutines served by one event loop.  Code between    *)
(* two suspending awaits runs without interleaving; `loop` names the       *)
(* request that currently occupies the event loop (NoReq when all are       *)
(* suspended).  A synchronous call made inside a coroutine keeps the       *)
(* loop for its whole duration; a call handed to run_in_executor runs on   *)
(* a worker thread while the loop is free.                                 *)
(***************************************************************************)
EXTENDS Integers, Sequences, FiniteSets, TLC

\* ------------------------------------------------------------------ bounds
MaxRid == 2          \* distinct response identifiers
MaxQuestions == 2    \* statements of one /generatereport request
MaxRows == 5         \* rows of a result handed to generate_statistics
MaxCols == 2         \* columns of such a result
MaxPid == 11         \* project identifiers (integers from 1)
MaxTuples == 2       \* tuples fetched by one cursor
MaxTables == 2       \* tables of a schema given to the table-name fix
MaxTokens == 3       \* tokens of a statement given to the table-name fix
MaxWords == 5        \* tokens of a model output given to the cleanup
MaxGroupCols == 2    \* items of a GROUP BY list
MaxUploadRows == 101 \* rows of an uploaded file

\* The coroutines the event loop interleaves.
Reqs == {"a", "b"}
NoReq == "none"
RespIds == 1 .. MaxRid

\* ------------------------------------------------- projects and connectors
\* Stored projects with the db_type of their ConnectionProfile.
Projects == {"p1", "p2"}

db_type(p) == "oracle"

\* db_metadata.py: one connector object per dialect key, created at import.
CONNECTOR_MAP == {"oracle", "postgres"}

get_connector(dbt) == dbt

NoRec == [pid |-> "none", src |-> NoReq]

VARIABLES
    req,        \* per request: the coroutine's position and locals
    loop,       \* request occupying the event loop, NoReq = idle
    selfconn,   \* connector -> request whose connection is self.connection
    cache,      \* response_logs: response_id -> record (unique response_id)
    gin,        \* inputs of a stand-alone generate_sql_from_question call
    gout,       \* its result
    sin,        \* arguments of a stand-alone generate_statistics call
    sout,       \* the Statistics it returns
    cin,        \* response_logs content and arguments of a save / get pair
    cst,        \* progress and results of that pair
    xin,        \* circumstances of a connector.execute_query call
    xout,       \* what the call hands back
    rin,        \* cursor.description names and fetched tuples
    rout,       \* the rows built from them
    fin,        \* schema and generated SQL given to the table-name fix
    fout,       \* the SQL after one and after two runs of the fix
    kin,        \* the model's text entering the cleanup
    kout,       \* the statement the cleanup lets through, or its failure
    lin,        \* how the model calls of one SQL generation end, and its question
    lst,        \* position, requests sent and results of that generation
    min,        \* a grouped statement as the model wrote it, and the schema's columns
    mout,       \* the statement after quoting and the group_by extracted from it
    ust,        \* upload_file: position in the insert loop and its counters
    pst,        \* db_metadata of the stored project record
    ups,        \* per upload_file request: position and its Project object's db_metadata
    ein,        \* a statement's outcome and the table schema used as hint
    eout        \* what each connector's execute_query returns for it

\* The pipeline's variables, and those of the stand-alone calls.
pipeline == <<req, loop, selfconn, cache>>
genVars == <<gin, gout>>
statsVars == <<sin, sout>>
cacheVars == <<cin, cst>>
connVars == <<xin, xout>>
rowsVars == <<rin, rout>>
fixVars == <<fin, fout>>
cleanVars == <<kin, kout>>
llmVars == <<lin, lst>>
metaVars == <<min, mout>>
uploadVars == <<ust>>
uploadsVars == <<pst, ups>>
equivVars == <<ein, eout>>
aux == <<genVars, statsVars, cacheVars, connVars, rowsVars,
        fixVars,
        cleanVars,
        llmVars,
        metaVars,
        uploadVars,
        uploadsVars,
        equivVars>>

\* A stand-alone call leaves the pipeline and the other calls untouched.
KeepBut(own) ==
    /\ UNCHANGED pipeline
    /\ IF own = "gen" THEN TRUE ELSE UNCHANGED genVars
    /\ IF own = "stats" THEN TRUE ELSE UNCHANGED statsVars
    /\ IF own = "cache" THEN TRUE ELSE UNCHANGED cacheVars
    /\ IF own = "conn" THEN TRUE ELSE UNCHANGED connVars
    /\ IF own = "rows" THEN TRUE ELSE UNCHANGED rowsVars
    /\ IF own = "fix" THEN TRUE ELSE UNCHANGED fixVars
    /\ IF own = "clean" THEN TRUE ELSE UNCHANGED cleanVars
    /\ IF own = "llm" THEN TRUE ELSE UNCHANGED llmVars
    /\ IF own = "meta" THEN TRUE ELSE UNCHANGED metaVars
    /\ IF own = "upload" THEN TRUE ELSE UNCHANGED uploadVars
    /\ IF own = "uploads" THEN TRUE ELSE UNCHANGED uploadsVars
    /\ IF own = "equiv" THEN TRUE ELSE UNCHANGED equivVars

vars == <<req, loop, selfconn, cache, gin, gout, sin, sout, cin, cst,
          xin, xout, rin, rout,
          fin, fout,
          kin, kout,
          lin, lst,
          min, mout,
          ust,
          pst, ups,
          ein, eout>>

\* ------------------------------------------------------------ SQL generation
\* What chat_model.infer_llm hands back to generate_sql_from_question:
\*   "sql"     text that survives cleanup and starts with a recognised verb
\*   "empty"   None or ""
\*   "errtext" text containing "error" (ChatModel returns failures as text)
\*   "prose"   text that does not start with a recognised verb
\*   "raises"  an exception before or inside the call
LlmSqlOutputs == {"sql", "empty", "errtext", "prose", "raises"}

\* The question, reduced to the trigger words it contains.
Questions == [avg : BOOLEAN, total : BOOLEAN, count : BOOLEAN, dept : BOOLEAN]

\* schema_dict, reduced to what the fallback reads: whether it has a table,
\* and whether the first table has a column whose description names the
\* salary / the job title.
Schemas == {s \in [tables : BOOLEAN, salary : BOOLEAN, job : BOOLEAN] :
                (s.salary \/ s.job) => s.tables}

HasTrigger(q) == q.avg \/ q.total \/ q.count

LlmValid(out) == out = "sql"

\* Variant: the count fallback without its trigger test.
fallback_sql_nocount(q, s) ==
    IF ~s.tables THEN "raise"
    ELSE IF q.avg /\ s.salary
         THEN (IF q.dept /\ s.job THEN "fb_avg_where" ELSE "fb_avg")
    ELSE IF q.total /\ s.salary THEN "fb_sum"
    ELSE "fb_count"

\* The except-branch of generate_sql_from_question (keyword fallback).
fallback_sql(q, s) ==
    IF ~s.tables THEN "raise"
    ELSE IF q.avg /\ s.salary
         THEN (IF q.dept /\ s.job THEN "fb_avg_where" ELSE "fb_avg")
    ELSE IF q.total /\ s.salary THEN "fb_sum"
    ELSE IF q.count THEN "fb_count"
    ELSE "raise"

\* Variant: the fallback statement is preferred whenever one can be built.
generate_sql_prefer_fallback(out, q, s) ==
    IF fallback_sql(q, s) # "raise" THEN fallback_sql(q, s)
    ELSE IF LlmValid(out) THEN "llm" ELSE "raise"

generate_sql_from_question(out, q, s) ==
    IF LlmValid(out) THEN "llm" ELSE fallback_sql(q, s)

Fallbacks == {"fb_avg", "fb_avg_where", "fb_sum", "fb_count"}

\* Classification of a generation's inputs kept in the request state.
GenClass(out, q) ==
    IF LlmValid(out) THEN "ok"
    ELSE IF HasTrigger(q) THEN "fail_trig" ELSE "fail_notrig"

\* -------------------------------------------------------- answer synthesis
\* What the second-stage call yields inside generate_human_readable_answer:
\*   "raises"       exception while building the prompt or in the call
\*   "errtext"      ChatModel returned "Error ..." text
\*   "fenced_json"  ```json {answer, quotation} ```
\*   "fenced"       ``` {answer, quotation} ```
\*   "bare_json"    {answer, quotation} without fence
\*   "json_nokeys"  a JSON object without the two keys
\*   "json_nonobj"  valid JSON that is not an object
\*   "prose"        text that is not JSON
LlmAnswerOutputs == {"raises", "errtext", "fenced_json", "fenced", "bare_json",
                     "json_nokeys", "json_nonobj", "prose"}

AnswerCallFailed(out) == out \in {"raises", "errtext"}
AnswerUnparseable(out) == out \in {"json_nonobj", "prose"}

generate_human_readable_answer(out) ==
    IF out = "raises" THEN "templated"
    ELSE IF out \in {"fenced_json", "fenced", "bare_json"} THEN "parsed"
    ELSE IF out = "json_nokeys" THEN "default"
    ELSE "raw"

\* --------------------------------------------------------------- statistics
\* A cell of a result row: a Python value reduced to its type and content.
\* "int" stands for int/float, "str" for text, "none" for NULL.
IntValue(n) == [t |-> "int", v |-> n]
StrValue(k) == [t |-> "str", v |-> k]
NullValue == [t |-> "none", v |-> 0]

\* str(x) as used for the category name: text stays, a number becomes its
\* digits, None becomes "None".
py_str(x) ==
    IF x.t = "str" THEN x
    ELSE IF x.t = "int" THEN [t |-> "digits", v |-> x.v]
    ELSE [t |-> "None", v |-> 0]

\* isinstance(val, (int, float))
is_number(x) == x.t = "int"

\* Optional[int] fields of Statistics.
None == [null |-> TRUE, v |-> 0]
Some(n) == [null |-> FALSE, v |-> n]

\* highest_category / lowest_category: absent, or {"name", "value"}.
NoCategory == [null |-> TRUE, name |-> py_str(NullValue), value |-> NullValue]

\* a / b of Python, kept as the exact quotient; b = 0 raises.
true_div(a, b) ==
    IF b = 0 THEN [error |-> "ZeroDivisionError", null |-> TRUE, num |-> 0, den |-> 1]
    ELSE [error |-> "none", null |-> FALSE, num |-> a, den |-> b]

NoAverage == [error |-> "none", null |-> TRUE, num |-> 0, den |-> 1]

\* [col for col in cols if keep(col)], in column order.
RECURSIVE filter_cols(_, _, _)
filter_cols(cols, first, numeric) ==
    IF cols = <<>> THEN <<>>
    ELSE LET c == Head(cols)
             isnum == c \in DOMAIN first /\ is_number(first[c])
         IN  (IF isnum = numeric THEN <<c>> ELSE <<>>)
                 \o filter_cols(Tail(cols), first, numeric)

\* Variant: only the first row is added up.
sum_numeric_first_row(rows, value_col) ==
    IF rows # <<>> /\ is_number(rows[1][value_col]) THEN rows[1][value_col].v
    ELSE 0

\* sum(row.get(value_col, 0) for row in db_result
\*     if isinstance(row.get(value_col), (int, float)))
RECURSIVE sum_numeric(_, _)
sum_numeric(rows, value_col) ==
    IF rows = <<>> THEN 0
    ELSE (IF is_number(Head(rows)[value_col]) THEN Head(rows)[value_col].v ELSE 0)
            + sum_numeric(Tail(rows), value_col)

\* The sort key of line 2912.
sort_key(row, value_col) ==
    IF is_number(row[value_col]) THEN row[value_col].v ELSE 0

\* sorted(..., reverse=True) is stable: sorted_results[0] is the first row
\* with the greatest key, sorted_results[-1] the last row with the least.
highest_index(rows, value_col) ==
    CHOOSE i \in 1 .. Len(rows) :
        /\ \A j \in 1 .. Len(rows) :
              sort_key(rows[j], value_col) <= sort_key(rows[i], value_col)
        /\ \A j \in 1 .. (i - 1) :
              sort_key(rows[j], value_col) < sort_key(rows[i], value_col)

lowest_index(rows, value_col) ==
    CHOOSE i \in 1 .. Len(rows) :
        /\ \A j \in 1 .. Len(rows) :
              sort_key(rows[j], value_col) >= sort_key(rows[i], value_col)
        /\ \A j \in (i + 1) .. Len(rows) :
              sort_key(rows[j], value_col) > sort_key(rows[i], value_col)

category_entry(row, category_col, value_col) ==
    [null |-> FALSE, name |-> py_str(row[category_col]), value |-> row[value_col]]

\* Variant: the early return also fills in the average.
empty_statistics_with_average ==
    [error |-> true_div(0, 0).error, total_rows |-> 0,
     total_categories |-> Some(0), grand_total |-> Some(0),
     highest_category |-> NoCategory, lowest_category |-> NoCategory,
     average_per_category |-> true_div(0, 0),
     numeric_columns |-> <<>>, category_columns |-> <<>>]

\* The early return of generate_statistics for `not db_result`.
empty_statistics ==
    [error |-> "none", total_rows |-> 0,
     total_categories |-> Some(0), grand_total |-> Some(0),
     highest_category |-> NoCategory, lowest_category |-> NoCategory,
     average_per_category |-> NoAverage,
     numeric_columns |-> <<>>, category_columns |-> <<>>]

\* generate_statistics(db_result, columns, query_filter_data); group_by is
\* the truth value of query_filter_data.group_by.  `error` names an
\* exception leaving the function, "none" when it returns.
generate_statistics(db_result, columns, group_by) ==
    IF db_result = <<>> THEN empty_statistics
    ELSE
    LET numeric_cols == filter_cols(columns, db_result[1], TRUE)
        category_cols == filter_cols(columns, db_result[1], FALSE)
        grouped == group_by /\ category_cols # <<>>
        valued == grouped /\ numeric_cols # <<>>
        category_col == category_cols[1]
        value_col == numeric_cols[1]
        total_categories == Len(db_result)
        grand_total == sum_numeric(db_result, value_col)
        average == IF valued /\ total_categories > 0
                   THEN true_div(grand_total, total_categories)
                   ELSE NoAverage
    IN  [error |-> average.error,
         total_rows |-> Len(db_result),
         total_categories |-> IF grouped THEN Some(total_categories) ELSE None,
         grand_total |-> IF valued THEN Some(grand_total) ELSE None,
         highest_category |->
            IF valued
            THEN category_entry(db_result[highest_index(db_result, value_col)],
                                category_col, value_col)
            ELSE NoCategory,
         lowest_category |->
            IF valued
            THEN category_entry(db_result[lowest_index(db_result, value_col)],
                                category_col, value_col)
            ELSE NoCategory,
         average_per_category |-> average,
         numeric_columns |-> numeric_cols,
         category_columns |-> category_cols]

\* Results handed to generate_statistics.  Column "k" is a text column whose
\* value names the row's group, "n" a numeric column that may hold NULL,
\* "m" a second numeric column.
StatCols == {"k", "n", "m"}
NCells == {NullValue, IntValue(0), IntValue(100)}

ColumnLists ==
    {cs \in UNION {[1 .. l -> StatCols] : l \in 1 .. MaxCols} :
        \A i \in 1 .. Len(cs), j \in 1 .. Len(cs) : i # j => cs[i] # cs[j]}

ColumnSet(cs) == {cs[i] : i \in 1 .. Len(cs)}

result_row(cs, i, x) ==
    [c \in ColumnSet(cs) |->
        IF c = "k" THEN StrValue(i) ELSE IF c = "n" THEN x ELSE IntValue(1)]

\* The arguments of one call: columns cs, the "n" cells xs of the rows, and
\* whether query_filter_data.group_by is set.
stats_input(cs, xs, g) ==
    [columns |-> cs,
     rows |-> [i \in 1 .. Len(xs) |-> result_row(cs, i, xs[i])],
     group_by |-> g]

NoStats == [empty_statistics EXCEPT !.error = "not_called"]

\* ------------------------------------------------------------ response_logs
\* str(project_id): the decimal digits of a non-negative integer.
RECURSIVE int_to_str(_)
int_to_str(n) ==
    IF n < 10 THEN <<n>> ELSE int_to_str(n \div 10) \o <<n % 10>>

\* int(text) for a text of decimal digits.
RECURSIVE str_to_int(_)
str_to_int(t) ==
    IF Len(t) = 1 THEN t[1]
    ELSE 10 * str_to_int(SubSeq(t, 1, Len(t) - 1)) + t[Len(t)]

ProjectIds == 1 .. MaxPid
QuestionTexts == {"q1", "q2"}
SqlTexts == {"s1", "s2"}
AnswerTexts == {"a1", "a2"}

\* ResponseLogsModel(...) as built by save_query_response.
response_log_row(a) ==
    [response_id |-> a.response_id, project_id |-> int_to_str(a.project_id),
     llm_generated_sql |-> a.sql_query, question |-> a.question,
     human_readable_answer |-> a.human_readable_answer]

\* Variant: the select names the project only.
select_where_project(logs, project_id, response_id) ==
    {row \in logs : row.project_id = int_to_str(project_id)}

\* select(ResponseLogsModel).where(project_id == str(project_id),
\*                                 response_id == response_id)
select_where(logs, project_id, response_id) ==
    {row \in logs : /\ row.project_id = int_to_str(project_id)
                    /\ row.response_id = response_id}

NotCached == [found |-> FALSE, response_id |-> 0, project_id |-> 0,
              llm_generated_sql |-> "", question |-> "",
              human_readable_answer |-> ""]

\* The dictionary get_cached_response returns; None when the select yields
\* no row, and when the query or scalar_one_or_none raises.
cached_response(logs, project_id, response_id, query_ok) ==
    LET found == select_where(logs, project_id, response_id)
    IN  IF ~query_ok \/ Cardinality(found) # 1 THEN NotCached
        ELSE LET row == CHOOSE x \in found : TRUE
             IN  [found |-> TRUE, response_id |-> row.response_id,
                  project_id |-> str_to_int(row.project_id),
                  llm_generated_sql |-> row.llm_generated_sql,
                  question |-> row.question,
                  human_readable_answer |-> row.human_readable_answer]

SaveArgs == [response_id : RespIds, project_id : ProjectIds,
             question : QuestionTexts, sql_query : SqlTexts,
             human_readable_answer : AnswerTexts]

\* response_logs before the save: empty, or one earlier record.
EarlierLogs ==
    {{}} \cup {{response_log_row([response_id |-> i, project_id |-> p,
                                   question |-> "q0", sql_query |-> "s0",
                                   human_readable_answer |-> "a0"])} :
                  i \in RespIds, p \in {1, MaxPid}}

CacheInputs == [args : SaveArgs, logs : EarlierLogs]

NoCacheState == [pc |-> "idle", logs |-> {}, saved |-> FALSE,
                 lookup |-> "none", got |-> NotCached]

\* ----------------------------------------------- connector.execute_query
\* Circumstances of one run_query:
\*   dialect  the connector (OracleConnector / PostgresConnector)
\*   conn     self.connection: "none" (never opened), "closed", "open"
\*   stmt     cursor.execute / fetch of the query: "ok" or "driver_error"
\*   star     the query is SELECT * FROM <table found in metadata>
\*   aggs     aggregations of that table's columns: "none"; "full" (a column
\*            with MIN/MAX, AVG and SUM); "avg_only" (a column with AVG and
\*            SUM and neither MIN nor MAX)
\*   stats    the supplementary MIN/MAX, AVG, SUM queries: "ok" or
\*            "driver_error"
\*   frame    building the DataFrame and its markdown: "ok" or "error"
ConnInputs == [dialect : {"oracle", "postgres"},
               conn : {"none", "closed", "open"},
               stmt : {"ok", "driver_error"},
               star : BOOLEAN,
               aggs : {"none", "full", "avg_only"},
               stats : {"ok", "driver_error"},
               frame : {"ok", "error"}]

\* The statistics block: which exception, if any, leaves it.
statistics_exception(x) ==
    IF ~x.star \/ x.aggs = "none" THEN "none"
    ELSE IF x.stats = "driver_error" THEN "DatabaseError"
    ELSE IF x.dialect = "oracle" /\ x.aggs = "avg_only" THEN "KeyError"
    ELSE "none"

\* The body of the try: the first exception raised, "none" when the
\* ResultSet is built.
try_body(x) ==
    IF x.conn = "none" THEN "AttributeError"
    ELSE IF x.conn = "closed" THEN "InterfaceError"
    ELSE IF x.stmt = "driver_error" THEN "DatabaseError"
    ELSE IF statistics_exception(x) # "none" THEN statistics_exception(x)
    ELSE IF x.frame = "error" THEN "ValueError"
    ELSE "none"

ReturnResultSet == [raised |-> "none", result |-> "ResultSet", message |-> "none"]
ReturnMessage == [raised |-> "none", result |-> "None", message |-> "text"]

\* Variant: run_query with the `except DatabaseError` clause only.
run_query_result_database_errors(x) ==
    LET e == try_body(x)
    IN  IF e = "none" THEN ReturnResultSet
        ELSE IF e = "DatabaseError" THEN ReturnMessage
        ELSE [raised |-> e, result |-> "None", message |-> "none"]

\* run_query: the try with its two except clauses.  The driver builds a
\* DatabaseError with one argument, which `error, = e.args` unpacks.
run_query_result(x) ==
    LET e == try_body(x)
    IN  IF e = "none" THEN ReturnResultSet
        ELSE IF e = "DatabaseError" THEN ReturnMessage
        ELSE ReturnMessage

NoConnOut == [raised |-> "none", result |-> "pending", message |-> "none"]

\* ------------------------------------------------------------ result rows
\* Names a cursor can report in cursor.description; a join reports the same
\* name for columns of two tables.
DescriptionNames == {"ID", "NAME"}
TupleCells == {IntValue(1), NullValue}

DescriptionLists == UNION {[1 .. l -> DescriptionNames] : l \in 0 .. MaxCols}

\* row_dict of /executequey: row_dict[col_name] = value for each index, so
\* a repeated name keeps the value of its last index.
row_dict(columns, row) ==
    [c \in {columns[i] : i \in 1 .. Len(columns)} |->
        row[CHOOSE i \in 1 .. Len(columns) :
                /\ columns[i] = c
                /\ \A j \in (i + 1) .. Len(columns) : columns[j] # c]]

\* db_result of /executequey.
build_db_result(columns, tuples) ==
    [i \in 1 .. Len(tuples) |-> row_dict(columns, tuples[i])]

\* pd.DataFrame(rows_data, columns=columns_data).astype(str).values.tolist()
\* of the Oracle connector: one text per cell, by position.
build_result_rows(columns, tuples) ==
    [i \in 1 .. Len(tuples) |->
        [j \in 1 .. Len(columns) |-> py_str(tuples[i][j])]]

NoRowsOut == [dicts |-> "pending", db_result |-> <<>>,
              lists |-> "pending", rows |-> <<>>]

GenInputs == [out : LlmSqlOutputs, q : Questions, s : Schemas]

\* ------------------------------------------- table-name hallucination fix
\* A table name is the sequence of its underscore-separated segments, in
\* upper case: <<"A", "h1">> is A_<h1>, where h1 and h2 stand for two
\* eight-hex-digit suffixes as uuid4()[:8] produces them.
HexSuffixes == {"h1", "h2"}

\* generate_table_name_from_filename: the file's base name, "_" and a suffix.
generate_table_name_from_filename(base, short_uuid) == Append(base, short_uuid)

\* re.sub(r'_[A-F0-9]{8}$', '', actual_name, flags=re.IGNORECASE)
strip_hash_suffix(actual_name) ==
    IF Len(actual_name) >= 2 /\ actual_name[Len(actual_name)] \in HexSuffixes
    THEN SubSeq(actual_name, 1, Len(actual_name) - 1)
    ELSE actual_name

\* SQL text as its tokens.  A word is a maximal run of word characters
\* (letters, digits, underscore), `lc` tells whether it is written in lower
\* case; a quoted token is "name"; punctuation is anything else.  Two
\* neighbouring words are separated by whitespace.
Word(v, lc) == [t |-> "word", v |-> v, lc |-> lc]
Quoted(v) == [t |-> "quoted", v |-> v, lc |-> FALSE]
Punct(v) == [t |-> "punct", v |-> <<v>>, lc |-> FALSE]

\* The four clause keywords the fix looks behind.
FixKeywords == <<"FROM", "JOIN", "UPDATE", "INTO">>

\* table_name_mapping, a dict in insertion order: assigning to a key that is
\* already present replaces its value and keeps its position.
RECURSIVE table_name_mapping(_)
table_name_mapping(db_metadata) ==
    IF db_metadata = <<>> THEN <<>>
    ELSE LET n == Len(db_metadata)
             prev == table_name_mapping(SubSeq(db_metadata, 1, n - 1))
             actual_name == db_metadata[n]
             base_name == strip_hash_suffix(actual_name)
             at == {i \in 1..Len(prev) : prev[i].generic_name = base_name}
         IN  IF base_name = actual_name THEN prev
             ELSE IF at # {}
                  THEN [i \in 1..Len(prev) |->
                           IF i \in at
                           THEN [prev[i] EXCEPT !.actual_name = actual_name]
                           ELSE prev[i]]
                  ELSE Append(prev, [generic_name |-> base_name,
                                     actual_name |-> actual_name])

\* \b<keyword>\s+<generic_name>\b with re.IGNORECASE matches at token i.
fix_match(keyword, generic_name, sql, i) ==
    /\ i < Len(sql)
    /\ sql[i].t = "word" /\ sql[i].v = <<keyword>>
    /\ sql[i + 1].t = "word" /\ sql[i + 1].v = generic_name

\* The same substitution with the physical name left bare.
RECURSIVE fix_sub_unquoted(_, _, _, _, _)
fix_sub_unquoted(keyword, generic_name, actual_name, sql, i) ==
    IF i > Len(sql) THEN <<>>
    ELSE IF fix_match(keyword, generic_name, sql, i)
         THEN <<Word(<<keyword>>, FALSE), Word(actual_name, FALSE)>>
              \o fix_sub_unquoted(keyword, generic_name, actual_name, sql, i + 2)
         ELSE <<sql[i]>>
              \o fix_sub_unquoted(keyword, generic_name, actual_name, sql, i + 1)

\* re.sub(rf'\b{keyword}\s+{generic_name}\b', f'{keyword} "{actual_name}"',
\* sql, flags=re.IGNORECASE): non-overlapping matches from token i onwards.
RECURSIVE fix_sub(_, _, _, _, _)
fix_sub(keyword, generic_name, actual_name, sql, i) ==
    IF i > Len(sql) THEN <<>>
    ELSE IF fix_match(keyword, generic_name, sql, i)
         THEN <<Word(<<keyword>>, FALSE), Quoted(actual_name)>>
              \o fix_sub(keyword, generic_name, actual_name, sql, i + 2)
         ELSE <<sql[i]>>
              \o fix_sub(keyword, generic_name, actual_name, sql, i + 1)

\* The four substitutions of one mapping entry, FROM first, INTO last.
RECURSIVE fix_entry(_, _, _)
fix_entry(entry, sql, k) ==
    IF k > Len(FixKeywords) THEN sql
    ELSE fix_entry(entry,
                   fix_sub(FixKeywords[k], entry.generic_name,
                           entry.actual_name, sql, 1),
                   k + 1)

\* for generic_name, actual_name in table_name_mapping.items(): ...
RECURSIVE fix_entries(_, _, _)
fix_entries(mapping, sql, j) ==
    IF j > Len(mapping) THEN sql
    ELSE fix_entries(mapping, fix_entry(mapping[j], sql, 1), j + 1)

\* Step 3.5 of execute_query as a whole.
fix_table_names(db_metadata, llm_generated_sql) ==
    fix_entries(table_name_mapping(db_metadata), llm_generated_sql, 1)

\* Schemas and generated SQL the fix is run on: two uploads of the same file
\* A, an upload of a file that is itself named A_<h1>, and a table without a
\* suffix; SQL that names A, a, A_<h1> after FROM / join.
FixTables ==
    {generate_table_name_from_filename(<<"A">>, "h1"),
     generate_table_name_from_filename(<<"A">>, "h2"),
     generate_table_name_from_filename(<<"A", "h1">>, "h2"),
     <<"A">>}
FixTokens ==
    {Word(<<"FROM">>, FALSE), Word(<<"JOIN">>, TRUE),
     Word(<<"A">>, FALSE), Word(<<"A">>, TRUE), Word(<<"A", "h1">>, FALSE),
     Punct(",")}
SeqsUpTo(S, n) == UNION {[1..k -> S] : k \in 0..n}
NoFixOut == [calls |-> 0, first |-> <<>>, second |-> <<>>]

\* ------------------------------------------------- cleanup of the model output
\* The model's text after the code fences are stripped, as its whitespace-
\* separated tokens in upper case: keywords, "x" for any other word, and the
\* two parentheses.
CleanTokens == {"SELECT", "UNION", "ALL", "x", "(", ")"}

\* The verbs a statement may start with.
StatementVerbs == {"SELECT", "INSERT", "UPDATE", "DELETE", "CREATE", "WITH"}

\* re.sub(r'\s+(UNION\s*ALL?)\s*$', '', sql, flags=re.IGNORECASE).strip():
\* whitespace, then UNION, then AL or ALL, at the very end.  UNION on its own
\* does not match: the pattern asks for "AL" after it.
remove_trailing_union(sql) ==
    LET n == Len(sql)
    IN  IF n >= 3 /\ sql[n - 1] = "UNION" /\ sql[n] \in {"ALL", "AL"}
        THEN SubSeq(sql, 1, n - 2)
        ELSE sql

\* list(re.finditer(r'(?i)\bSELECT\b', sql)): every SELECT keyword.
select_matches(sql) == {i \in 1..Len(sql) : sql[i] = "SELECT"}

\* The i-th smallest element of a set of positions.
nth_position(S, i) == CHOOSE p \in S : Cardinality({q \in S : q < p}) = i - 1

\* Step 5 of generate_sql_from_question, up to the verb check: the statement
\* or ValueError("Invalid SQL generated by LLM").
clean_sql(text) ==
    LET untailed == remove_trailing_union(text)
        matches == select_matches(untailed)
        first == IF Cardinality(matches) > 1
                 THEN remove_trailing_union(
                          SubSeq(untailed, nth_position(matches, 1),
                                 nth_position(matches, 2) - 1))
                 ELSE untailed
    IN  IF first # <<>> /\ first[1] \in StatementVerbs
        THEN [done |-> TRUE, ok |-> TRUE, sql |-> first]
        ELSE [done |-> TRUE, ok |-> FALSE, sql |-> <<>>]

NoCleanOut == [done |-> FALSE, ok |-> FALSE, sql |-> <<>>]

\* ------------------------------------------------------ ChatModel.infer_llm
\* What a successful model call carries as message content.
LlmContents == LlmSqlOutputs \ {"raises"}

\* How litellm.completion and the raw requests.post end.
CompletionOutcomes == {"content", "raises"}
PostOutcomes == {"200", "500", "raises"}

\* What infer_llm returns once completion() has raised: the content of a 200
\* answer, f"Error: {status}" or f"Error during inference: {e2}".
raw_http_result(post, content) ==
    IF post = "200" THEN content ELSE "errtext"

LlmInputs ==
    [completion : CompletionOutcomes, post : PostOutcomes,
     content : LlmContents, q : Questions, s : Schemas]
NoLlmState == [pc |-> "idle", requests |-> 0, ret |-> "none", sql |-> "none"]

\* ------------------------------------- identifier quoting and query metadata
\* The dialect execute_query passes to generate_sql_from_question.
Dialects == {"Oracle", "PostgreSQL"}

\* dialect.lower()
dialect_lower(dialect) == IF dialect = "Oracle" THEN "oracle" ELSE "postgresql"

\* One item of a GROUP BY list: a column name (letter case set aside),
\* whether it is written "quoted", and whether a table name and a dot
\* precede it.
GroupItems == [name : {"d", "e"}, quoted : BOOLEAN, table : BOOLEAN]

\* What follows the GROUP BY list in the statement.
ClauseTails == {"end", "order", "having", "limit"}

\* Step 6 of generate_sql_from_question on one item: a schema column not
\* yet between double quotes gets them (its table name likewise).
quote_item(item, dialect, all_columns) ==
    IF /\ dialect_lower(dialect) \in {"oracle", "postgres", "postgresql"}
       /\ item.name \in all_columns
    THEN [item EXCEPT !.quoted = TRUE]
    ELSE item

quote_identifiers(clause, dialect, all_columns) ==
    [i \in 1 .. Len(clause) |-> quote_item(clause[i], dialect, all_columns)]

\* re.search(r'GROUP\s+BY\s+([\w\s,._]+?)(?:ORDER|HAVING|$)', sql_upper):
\* the list has to consist of word characters, whitespace, commas, dots and
\* underscores up to ORDER, HAVING or the end of the text.  A double quote
\* in the list makes the search fail; a LIMIT clause is read as part of the
\* last item.  Each item is stripped and cut to its last dotted segment.
extract_group_by(clause, tail) ==
    IF clause = <<>> \/ \E i \in 1 .. Len(clause) : clause[i].quoted
    THEN [null |-> TRUE, cols |-> <<>>]
    ELSE [null |-> FALSE,
          cols |-> [i \in 1 .. Len(clause) |->
                      [name |-> clause[i].name,
                       glued |-> IF i = Len(clause) /\ tail = "limit"
                                 THEN "limit" ELSE "none"]]]

NoMetaOut == [pc |-> "idle", clause |-> <<>>,
              group_by |-> [null |-> TRUE, cols |-> <<>>]]

\* ------------------------------------------------- upload_file, row inserts
\* rows_inserted % 100 == 0: a commit after every hundredth successful row.
CommitEvery == 100

\* connection.commit(): the rows inserted since the last commit or rollback
\* become permanent.
connection_commit(u) ==
    [u EXCEPT !.committed = u.committed + u.pending, !.pending = 0]

\* connection.rollback(): they are discarded.
connection_rollback(u) == [u EXCEPT !.pending = 0]

\* Before the first row of the DataFrame.
UploadStart ==
    [pc |-> "insert", idx |-> 0, rows_inserted |-> 0, pending |-> 0,
     committed |-> 0]

\* ------------------------------------------ upload_file, project metadata
\* The table each upload creates: generate_table_name_from_filename gives
\* every upload its own suffix.
upload_table_name(r) == IF r = "a" THEN "FILE_h1" ELSE "FILE_h2"

\* project_obj.db_metadata = [t for t in project_obj.db_metadata
\*                            if t.name != table_name]
\* project_obj.db_metadata.append(new_schema)
with_new_schema(db_metadata, table_name) ==
    Append(SelectSeq(db_metadata, LAMBDA t : t # table_name), table_name)

\* db_metadata of the stored project before the uploads.
StoredSchemas == {<<>>, <<"OLD">>, <<"OLD", "OLDER">>}

\* An upload request that has not read the project yet.
UploadReceived == [pc |-> "received", db_metadata |-> <<>>]

\* ------------------------------- supplementary statistics, both connectors
\* The aggregations a TableColumn may list, and the columns of the table
\* schema that serves as hint.
Aggregations == {"MIN", "MAX", "AVG", "SUM", "COUNT"}
HintColumns == {"c1", "c2"}

\* min_max_cols, avg_cols, sum_cols of a table schema.
min_max_cols(hint) == {c \in HintColumns : hint[c] \cap {"MIN", "MAX"} # {}}
avg_cols(hint) == {c \in HintColumns : "AVG" \in hint[c]}
sum_cols(hint) == {c \in HintColumns : "SUM" \in hint[c]}

\* The statistics dict as column -> keys present; {} for a column that has
\* no entry.  Oracle: statistics[col]["avg"] = ... on the entry the MIN/MAX
\* block made, KeyError when there is none.
oracle_statistics(hint) ==
    IF (avg_cols(hint) \cup sum_cols(hint)) \subseteq min_max_cols(hint)
    THEN [raised |-> "none",
          keys |-> [c \in HintColumns |->
                      (IF c \in min_max_cols(hint) THEN {"min", "max"} ELSE {})
                      \cup (IF c \in avg_cols(hint) THEN {"avg"} ELSE {})
                      \cup (IF c \in sum_cols(hint) THEN {"sum"} ELSE {})]]
    ELSE [raised |-> "KeyError", keys |-> [c \in HintColumns |-> {}]]

\* Postgres: `if col not in statistics: statistics[col] = {}` comes first.
postgres_statistics(hint) ==
    [raised |-> "none",
     keys |-> [c \in HintColumns |->
                 (IF c \in min_max_cols(hint) THEN {"min", "max"} ELSE {})
                 \cup (IF c \in avg_cols(hint) THEN {"avg"} ELSE {})
                 \cup (IF c \in sum_cols(hint) THEN {"sum"} ELSE {})]]

\* run_query of either connector on an open connection: the main statement
\* ends as x.stmt says; the statistics block runs for SELECT * FROM <table>
\* when the table is in the metadata; every exception becomes
\* (None, message).
connector_outcome(dialect, x) ==
    LET block == IF dialect = "oracle" THEN oracle_statistics(x.hint)
                 ELSE postgres_statistics(x.hint)
        empty == [c \in HintColumns |-> {}]
    IN  IF x.stmt = "driver_error"
        THEN [done |-> TRUE, kind |-> "error", keys |-> empty]
        ELSE IF ~(x.star /\ x.known)
        THEN [done |-> TRUE, kind |-> "ResultSet", keys |-> empty]
        ELSE IF block.raised # "none"
        THEN [done |-> TRUE, kind |-> "error", keys |-> empty]
        ELSE [done |-> TRUE, kind |-> "ResultSet", keys |-> block.keys]

NotExecuted == [done |-> FALSE, kind |-> "none", keys |-> [c \in HintColumns |-> {}]]

\* ------------------------------------------------------- failure messages
\* An exception text, reduced to the kinds of its parts:
\*   "exc"     ASCII words of the exception itself
\*   "native"  characters outside ASCII (localised driver messages)
\*   "model"   text returned by the model call, quoted by the exception
\* str(e) of a driver error raised by cursor.execute / fetchall.
DriverMessages == {<<"exc">>, <<"exc", "native">>}

\* str(e).encode('ascii', 'ignore').decode('ascii')
ascii_ignore(m) == SelectSeq(m, LAMBDA c : c # "native")

\* str(e) of the exception that reaches the except-branch of
\* generate_sql_from_question, by what infer_llm handed back.
gen_exception_text(out) ==
    IF out = "errtext" THEN <<"exc", "model">> ELSE <<"exc">>

\* Keys of the body returned to the caller: ExecuteQueryResponse on success,
\* the {"detail": ...} body of an HTTPException otherwise.
response_keys(out) ==
    IF out = "ok"
    THEN {"response_id", "question", "llm_generated_sql", "query_filter_data",
          "db_result", "statistics", "human_readable_answer", "quotation",
          "metadata"}
    ELSE {"detail"}

\* ------------------------------------------------------------ request state
Idle == [pc |-> "idle", kind |-> "none", proj |-> "none", rid |-> 0,
         mode |-> 0, nq |-> 0, qi |-> 0,
         genIn |-> "none", sqlSrc |-> "none", conn |-> "none",
         subs |-> [i \in 1 .. MaxQuestions |-> 0], res |-> "none",
         used |-> {}, nerr |-> 0, xerr |-> 0, nok |-> 0,
         ansIn |-> "none", answer |-> "none", saves |-> 0, gens |-> 0,
         after |-> {}, lookup |-> "none", outcome |-> "none",
         excText |-> <<>>]

\* No request has arrived; nothing is stored.
PipelineIdle ==
    /\ req = [r \in Reqs |-> Idle]
    /\ loop = NoReq
    /\ selfconn = [c \in CONNECTOR_MAP |-> NoReq]
    /\ cache = [i \in RespIds |-> NoRec]

\* The value of a variable no call of the specification at hand touches.
Unused == "unused"

\* The stand-alone calls that a specification does not exercise.
GenIdle == gin = Unused /\ gout = Unused
StatsIdle == sin = Unused /\ sout = Unused
CacheIdle == cin = Unused /\ cst = Unused
ConnIdle == xin = Unused /\ xout = Unused
RowsIdle == rin = Unused /\ rout = Unused
FixIdle == fin = Unused /\ fout = Unused
CleanIdle == kin = Unused /\ kout = Unused
LlmIdle == lin = Unused /\ lst = Unused
MetaIdle == min = Unused /\ mout = Unused
UploadIdle == ust = Unused
UploadsIdle == pst = Unused /\ ups = Unused
EquivIdle == ein = Unused /\ eout = Unused

\* Everything idle except the stand-alone call `own`.
IdleBut(own) ==
    /\ PipelineIdle
    /\ IF own = "gen" THEN TRUE ELSE GenIdle
    /\ IF own = "stats" THEN TRUE ELSE StatsIdle
    /\ IF own = "cache" THEN TRUE ELSE CacheIdle
    /\ IF own = "conn" THEN TRUE ELSE ConnIdle
    /\ IF own = "rows" THEN TRUE ELSE RowsIdle
    /\ IF own = "fix" THEN TRUE ELSE FixIdle
    /\ IF own = "clean" THEN TRUE ELSE CleanIdle
    /\ IF own = "llm" THEN TRUE ELSE LlmIdle
    /\ IF own = "meta" THEN TRUE ELSE MetaIdle
    /\ IF own = "upload" THEN TRUE ELSE UploadIdle
    /\ IF own = "uploads" THEN TRUE ELSE UploadsIdle
    /\ IF own = "equiv" THEN TRUE ELSE EquivIdle

Init == IdleBut("none")

\* The endpoint returns or raises: the coroutine ends and frees the loop.
Finish(r, rec, out) ==
    /\ req' = [req EXCEPT ![r] = [rec EXCEPT !.pc = "done", !.outcome = out]]
    /\ loop' = NoReq

\* The coroutine goes on to position `to`; `hold` tells whether it keeps the
\* event loop (synchronous code) or suspends at an await.
Goto(r, rec, to, hold) ==
    /\ req' = [req EXCEPT ![r] = [rec EXCEPT !.pc = to]]
    /\ loop' = IF hold THEN r ELSE NoReq

\* Requests whose successful /executequey response has been returned.
Returned == {f \in Reqs : req[f].kind = "fresh" /\ req[f].outcome = "ok"}

\* /executequey without response_id: entry up to `await get_project_by_id`.
StartFresh(r) ==
    /\ req[r].pc = "idle" /\ loop = NoReq
    /\ \E p \in Projects, i \in RespIds :
         req' = [req EXCEPT ![r] = [Idle EXCEPT !.pc = "proj_wait",
                     !.kind = "fresh", !.proj = p, !.rid = i]]
    /\ UNCHANGED <<loop, selfconn, cache, aux>>

\* /executequey with response_id, and /graph: entry up to
\* `await get_cached_response`.
StartReplay(r) ==
    /\ req[r].pc = "idle" /\ loop = NoReq
    /\ \E p \in Projects, i \in RespIds, k \in {"replay", "graph"} :
         req' = [req EXCEPT ![r] = [Idle EXCEPT !.pc = "cache_wait",
                     !.kind = k, !.proj = p, !.rid = i, !.after = Returned]]
    /\ UNCHANGED <<loop, selfconn, cache, aux>>

\* /generatereport: entry up to `await get_project_by_id`.  Mode 1 carries
\* nq statements, mode 2 names a stored question, mode 3 carries a question.
StartReport(r) ==
    /\ req[r].pc = "idle" /\ loop = NoReq
    /\ \E p \in Projects, m \in 1 .. 3, n \in 1 .. MaxQuestions :
         /\ (m # 1) => n = 1
         /\ req' = [req EXCEPT ![r] = [Idle EXCEPT !.pc = "proj_wait",
                     !.kind = "report", !.proj = p, !.mode = m, !.nq = n]]
    /\ UNCHANGED <<loop, selfconn, cache, aux>>

\* The select of get_cached_response: project_id and response_id both match.
\* Variant: project_id compared as a number with the stored string.
select_response_log_untyped(c, p, i) == NoRec

select_response_log(c, p, i) ==
    IF c[i] # NoRec /\ c[i].pid = p THEN c[i] ELSE NoRec

\* Variant: the select uses scalar_one(); a missing row raises out of the
\* function and reaches the endpoint's `except Exception`.
get_cached_response_strict(r) ==
    /\ req[r].pc = "cache_wait" /\ loop = NoReq
    /\ \E ok \in BOOLEAN :
         LET found == IF ok THEN select_response_log(cache, req[r].proj, req[r].rid)
                      ELSE NoRec
             rec == [req[r] EXCEPT !.lookup =
                        IF ~ok THEN "failed"
                        ELSE IF found = NoRec THEN "miss" ELSE "hit"]
         IN  IF found = NoRec
             THEN Finish(r, rec, IF ok THEN "exec_failure_raw" ELSE "cache_404")
             ELSE Goto(r, rec, "proj_wait", FALSE)
    /\ UNCHANGED <<selfconn, cache, aux>>

\* get_cached_response, and the 404 of its two callers.  A failing query is
\* caught inside get_cached_response and yields None as well.
get_cached_response(r) ==
    /\ req[r].pc = "cache_wait" /\ loop = NoReq
    /\ \E ok \in BOOLEAN :
         LET found == IF ok THEN select_response_log(cache, req[r].proj, req[r].rid)
                      ELSE NoRec
             rec == [req[r] EXCEPT !.lookup =
                        IF ~ok THEN "failed"
                        ELSE IF found = NoRec THEN "miss" ELSE "hit"]
         IN  IF found = NoRec
             THEN Finish(r, rec, "cache_404")
             ELSE Goto(r, rec, "proj_wait", FALSE)
    /\ UNCHANGED <<selfconn, cache, aux>>

\* get_project_by_id returns; the caller runs on to its next await or to its
\* next blocking call.
get_project_by_id(r) ==
    /\ req[r].pc = "proj_wait" /\ loop = NoReq
    /\ \E found \in BOOLEAN :
         IF ~found THEN Finish(r, req[r], "project_404")
         ELSE IF req[r].kind = "fresh" \/ (req[r].kind = "report" /\ req[r].mode = 3)
              THEN Goto(r, [req[r] EXCEPT !.gens = @ + 1], "llm_wait", TRUE)
         ELSE IF req[r].kind = "report" /\ req[r].mode = 2
              THEN Goto(r, req[r], "fetch_wait", FALSE)
         ELSE Goto(r, req[r], "connect", TRUE)
    /\ UNCHANGED <<selfconn, cache, aux>>

\* generate_report mode 2: fetch_questions_from_db returns.
fetch_questions_from_db(r) ==
    /\ req[r].pc = "fetch_wait" /\ loop = NoReq
    /\ \E found \in BOOLEAN :
         IF found THEN Goto(r, req[r], "connect", TRUE)
         ELSE Finish(r, req[r], "question_404")
    /\ UNCHANGED <<selfconn, cache, aux>>

\* chat_model.infer_llm returns inside generate_sql_from_question; cleanup,
\* validation, fallback and table-name correction follow on the loop.
infer_llm_sql(r) ==
    /\ req[r].pc = "llm_wait" /\ loop = r
    /\ \E out \in LlmSqlOutputs, q \in Questions, s \in Schemas :
         LET sql == generate_sql_from_question(out, q, s)
             rec == [req[r] EXCEPT !.genIn = GenClass(out, q),
                        !.sqlSrc = IF sql = "raise" THEN "none"
                                   ELSE IF sql = "llm" THEN "llm" ELSE "fallback"]
         IN  IF sql = "raise"
             THEN Finish(r, [rec EXCEPT !.excText = gen_exception_text(out)],
                         "gen_failure")
             ELSE Goto(r, rec, "connect", TRUE)
    /\ UNCHANGED <<selfconn, cache, aux>>

\* connector.get_connection: stores the new connection in the shared
\* connector object and returns it.
get_connection(r) ==
    /\ req[r].pc = "connect" /\ loop = r
    /\ \E ok \in BOOLEAN :
         IF ~ok
         THEN Finish(r, req[r], "connect_error") /\ UNCHANGED selfconn
         ELSE /\ selfconn' = [selfconn EXCEPT
                                 ![get_connector(db_type(req[r].proj))] = r]
              /\ IF req[r].kind = "report"
                 THEN Goto(r, [req[r] EXCEPT !.conn = "open", !.qi = 1],
                           "worker_wait", FALSE)
                 ELSE Goto(r, [req[r] EXCEPT !.conn = "open",
                                  !.subs[1] = @ + 1], "db_wait", TRUE)
    /\ UNCHANGED <<cache, aux>>

DbResults == {"error", "rows", "empty"}

\* Variant: a failed statement is submitted once more.
cursor_execute_retry(r) ==
    /\ req[r].pc = "db_wait" /\ loop = r
    /\ \E d \in DbResults :
         LET rec == [req[r] EXCEPT !.res = d]
             closed == [rec EXCEPT !.conn = "closed"]
         IN  IF d = "error"
             THEN IF req[r].subs[1] < 2
                  THEN Goto(r, [req[r] EXCEPT !.subs[1] = @ + 1], "db_wait", TRUE)
                  ELSE Finish(r, rec, "exec_failure")
             ELSE IF req[r].kind = "fresh"
                  THEN Goto(r, closed, "ans_wait", TRUE)
                  ELSE Goto(r, closed, "chart_wait", FALSE)
    /\ UNCHANGED <<selfconn, cache, aux>>

\* cursor.execute / fetchall return in /executequey (fresh and replay) and
\* in /graph.
cursor_execute(r) ==
    /\ req[r].pc = "db_wait" /\ loop = r
    /\ \E d \in DbResults, m \in DriverMessages :
         LET rec == [req[r] EXCEPT !.res = d]
             closed == [rec EXCEPT !.conn = "closed"]
             raw == [rec EXCEPT !.excText = m]
         IN  CASE req[r].kind = "fresh" ->
                    IF d = "error"
                    THEN Finish(r, [rec EXCEPT !.excText = ascii_ignore(m)],
                                "exec_failure")
                    ELSE Goto(r, closed, "ans_wait", TRUE)
               [] req[r].kind = "replay" ->
                    IF d = "error" THEN Finish(r, raw, "exec_failure_raw")
                    ELSE IF d = "empty" THEN Finish(r, closed, "no_results")
                    ELSE Goto(r, closed, "chart_wait", FALSE)
               [] OTHER ->
                    IF d = "error" THEN Finish(r, raw, "exec_failure_raw")
                    ELSE Goto(r, closed, "chart_wait", FALSE)
    /\ UNCHANGED <<selfconn, cache, aux>>

\* chat_model.infer_llm returns inside generate_human_readable_answer; the
\* endpoint goes on to save_query_response and suspends in db.commit().
infer_llm_answer(r) ==
    /\ req[r].pc = "ans_wait" /\ loop = r
    /\ \E out \in LlmAnswerOutputs :
         Goto(r, [req[r] EXCEPT
                     !.ansIn = IF AnswerCallFailed(out) THEN "call_failed"
                               ELSE IF AnswerUnparseable(out) THEN "unparseable"
                               ELSE "parsed",
                     !.answer = generate_human_readable_answer(out)],
              "commit_wait", FALSE)
    /\ UNCHANGED <<selfconn, cache, aux>>

\* Variant: the insert replaces a record that has the same response_id.
db_commit_upsert(r) ==
    /\ req[r].pc = "commit_wait" /\ loop = NoReq
    /\ \/ /\ cache' = [cache EXCEPT ![req[r].rid] =
                          [pid |-> req[r].proj, src |-> r]]
          /\ Goto(r, [req[r] EXCEPT !.saves = @ + 1], "refresh_wait", FALSE)
       \/ /\ UNCHANGED cache
          /\ Goto(r, req[r], "rollback_wait", FALSE)
    /\ UNCHANGED <<selfconn, aux>>

\* save_query_response: db.commit() returns.  response_id is unique in
\* response_logs, so a commit succeeds only for an unused response_id.
db_commit(r) ==
    /\ req[r].pc = "commit_wait" /\ loop = NoReq
    /\ \/ /\ cache[req[r].rid] = NoRec
          /\ cache' = [cache EXCEPT ![req[r].rid] =
                          [pid |-> req[r].proj, src |-> r]]
          /\ Goto(r, [req[r] EXCEPT !.saves = @ + 1], "refresh_wait", FALSE)
       \/ /\ UNCHANGED cache
          /\ Goto(r, req[r], "rollback_wait", FALSE)
    /\ UNCHANGED <<selfconn, aux>>

\* save_query_response: db.refresh() returns.
db_refresh(r) ==
    /\ req[r].pc = "refresh_wait" /\ loop = NoReq
    /\ \/ Finish(r, req[r], "ok")
       \/ Goto(r, req[r], "rollback_wait", FALSE)
    /\ UNCHANGED <<selfconn, cache, aux>>

\* save_query_response: db.rollback() in the except branch returns; an
\* exception of rollback leaves save_query_response and reaches the
\* endpoint's `except Exception`.
db_rollback(r) ==
    /\ req[r].pc = "rollback_wait" /\ loop = NoReq
    /\ \/ Finish(r, req[r], "ok")
       \/ Finish(r, req[r], "save_error")
    /\ UNCHANGED <<selfconn, cache, aux>>

\* Variant: the replay stores the refreshed response again.
call_chart_spec_endpoint_resave(r) ==
    /\ req[r].pc = "chart_wait" /\ loop = NoReq
    /\ cache' = [cache EXCEPT ![req[r].rid] = [pid |-> req[r].proj, src |-> r]]
    /\ Finish(r, [req[r] EXCEPT !.saves = @ + 1], "chart")
    /\ UNCHANGED <<selfconn, aux>>

\* call_chart_spec_endpoint returns (it catches its own failures); the
\* replay builds the HTML page, /graph the GraphResponse.
call_chart_spec_endpoint(r) ==
    /\ req[r].pc = "chart_wait" /\ loop = NoReq
    /\ Finish(r, req[r], "chart")
    /\ UNCHANGED <<selfconn, cache, aux>>

\* generate_report leaves its loop over the questions, or starts the next
\* iteration by handing run_query to the executor.
NextQuestion(r, rec) ==
    IF rec.qi < rec.nq
    THEN Goto(r, [rec EXCEPT !.qi = @ + 1, !.res = "none"], "worker_wait", FALSE)
    ELSE IF rec.nok = 0 THEN Finish(r, rec, "report_400")
    ELSE Finish(r, rec, "report")

\* run_query of connector.execute_query, on a worker thread: it takes the
\* connection from self.connection when it runs.
run_query(r) ==
    /\ req[r].pc = "worker_wait"
    /\ LET owner == selfconn[get_connector(db_type(req[r].proj))]
       IN  \E d \in DbResults :
             /\ (req[owner].conn = "closed") => d = "error"
             /\ req' = [req EXCEPT ![r] = [@ EXCEPT !.pc = "worker_done",
                           !.res = d, !.subs[req[r].qi] = @ + 1,
                           !.used = @ \cup {req[owner].proj}]]
    /\ UNCHANGED <<loop, selfconn, cache, aux>>

\* generate_report resumes after `await connector.execute_query`.
report_result(r) ==
    /\ req[r].pc = "worker_done" /\ loop = NoReq
    /\ IF req[r].res = "rows"
       THEN Goto(r, req[r], "rchart_wait", FALSE)
       ELSE NextQuestion(r, [req[r] EXCEPT !.nerr = @ + 1,
                   !.xerr = IF req[r].res = "error" THEN @ + 1 ELSE @])
    /\ UNCHANGED <<selfconn, cache, aux>>

\* generate_report resumes after `await call_chart_spec_api`.
call_chart_spec_api(r) ==
    /\ req[r].pc = "rchart_wait" /\ loop = NoReq
    /\ NextQuestion(r, [req[r] EXCEPT !.nok = @ + 1])
    /\ UNCHANGED <<selfconn, cache, aux>>

Next ==
    \E r \in Reqs :
        \/ StartFresh(r)
        \/ StartReplay(r)
        \/ StartReport(r)
        \/ get_cached_response(r)
        \/ get_project_by_id(r)
        \/ fetch_questions_from_db(r)
        \/ infer_llm_sql(r)
        \/ get_connection(r)
        \/ cursor_execute(r)
        \/ infer_llm_answer(r)
        \/ db_commit(r)
        \/ db_refresh(r)
        \/ db_rollback(r)
        \/ call_chart_spec_endpoint(r)
        \/ run_query(r)
        \/ report_result(r)
        \/ call_chart_spec_api(r)

Spec == Init /\ [][Next]_vars

\* ------------------------------------ generate_sql_from_question alone
InitGen ==
    /\ IdleBut("gen")
    /\ gin \in GenInputs
    /\ gout = "none"

GenCall ==
    /\ gout = "none"
    /\ gout' = generate_sql_from_question(gin.out, gin.q, gin.s)
    /\ UNCHANGED gin /\ KeepBut("gen")

NextGen == GenCall

SpecGen == InitGen /\ [][NextGen]_vars

\* ------------------------------------------- generate_statistics alone
InitStats ==
    /\ IdleBut("stats")
    /\ \E cs \in ColumnLists, l \in 0 .. MaxRows, g \in BOOLEAN :
         \E xs \in [1 .. l -> NCells] : sin = stats_input(cs, xs, g)
    /\ sout = NoStats

StatsCall ==
    /\ sout = NoStats
    /\ sout' = generate_statistics(sin.rows, sin.columns, sin.group_by)
    /\ UNCHANGED sin /\ KeepBut("stats")

NextStats == StatsCall

SpecStats == InitStats /\ [][NextStats]_vars

\* ------------------- save_query_response followed by get_cached_response
InitCache ==
    /\ IdleBut("cache")
    /\ cin \in CacheInputs
    /\ cst = [NoCacheState EXCEPT !.pc = "save", !.logs = cin.logs]

\* save_query_response as a whole: the insert is committed when no record
\* has the response_id (unique column) and the database accepts it;
\* otherwise the exception is swallowed after the rollback.
save_query_response ==
    /\ cst.pc = "save"
    /\ \/ /\ \A row \in cst.logs : row.response_id # cin.args.response_id
          /\ cst' = [cst EXCEPT !.pc = "get", !.saved = TRUE,
                        !.logs = @ \cup {response_log_row(cin.args)}]
       \/ cst' = [cst EXCEPT !.pc = "get"]
    /\ UNCHANGED cin /\ KeepBut("cache")

\* get_cached_response with the project_id and response_id of the save.
get_cached ==
    /\ cst.pc = "get"
    /\ \E ok \in BOOLEAN :
         cst' = [cst EXCEPT !.pc = "done",
                    !.lookup = IF ok THEN "done" ELSE "failed",
                    !.got = cached_response(cst.logs, cin.args.project_id,
                                            cin.args.response_id, ok)]
    /\ UNCHANGED cin /\ KeepBut("cache")

NextCache == save_query_response \/ get_cached

SpecCache == InitCache /\ [][NextCache]_vars

\* ------------------------------------- connector.execute_query alone
InitConn ==
    /\ IdleBut("conn")
    /\ xin \in ConnInputs
    /\ xout = NoConnOut

\* await loop.run_in_executor(None, run_query) hands back what run_query
\* returned, or re-raises what it raised.
execute_query ==
    /\ xout = NoConnOut
    /\ xout' = run_query_result(xin)
    /\ UNCHANGED xin /\ KeepBut("conn")

NextConn == execute_query

SpecConn == InitConn /\ [][NextConn]_vars

\* --------------------------------------------- rows built from a cursor
InitRows ==
    /\ IdleBut("rows")
    /\ \E cs \in DescriptionLists, n \in 0 .. MaxTuples :
         \E ts \in [1 .. n -> [1 .. Len(cs) -> TupleCells]] :
            rin = [columns |-> cs, tuples |-> ts]
    /\ rout = NoRowsOut

\* /executequey: the loop "Convert to list of dicts".
ConvertToDicts ==
    /\ rout.dicts = "pending"
    /\ rout' = [rout EXCEPT !.dicts = "built",
                    !.db_result = build_db_result(rin.columns, rin.tuples)]
    /\ UNCHANGED rin /\ KeepBut("rows")

\* Oracle connector: the DataFrame and its list of lists.
ConvertToLists ==
    /\ rout.lists = "pending"
    /\ rout' = [rout EXCEPT !.lists = "built",
                    !.rows = build_result_rows(rin.columns, rin.tuples)]
    /\ UNCHANGED rin /\ KeepBut("rows")

NextRows == ConvertToDicts \/ ConvertToLists

SpecRows == InitRows /\ [][NextRows]_vars

\* ------------------------------------------ table-name fix, applied twice
InitFix ==
    /\ IdleBut("fix")
    /\ \E tables \in SeqsUpTo(FixTables, MaxTables),
          sql \in SeqsUpTo(FixTokens, MaxTokens) :
          fin = [db_metadata |-> tables, sql |-> sql]
    /\ fout = NoFixOut

\* Step 3.5 on the generated SQL.
FixOnce ==
    /\ fout.calls = 0
    /\ fout' = [calls |-> 1,
                first |-> fix_table_names(fin.db_metadata, fin.sql),
                second |-> <<>>]
    /\ UNCHANGED fin /\ KeepBut("fix")

\* Step 3.5 again, on what it produced.
FixAgain ==
    /\ fout.calls = 1
    /\ fout' = [fout EXCEPT !.calls = 2,
                            !.second = fix_table_names(fin.db_metadata,
                                                       fout.first)]
    /\ UNCHANGED fin /\ KeepBut("fix")

NextFix == FixOnce \/ FixAgain

SpecFix == InitFix /\ [][NextFix]_vars

\* ------------------------------------------- cleanup of one model output
InitClean ==
    /\ IdleBut("clean")
    /\ kin \in SeqsUpTo(CleanTokens, MaxWords)
    /\ kout = NoCleanOut

\* Lines 1714-1738 on the model's text.
CleanCall ==
    /\ ~kout.done
    /\ kout' = clean_sql(kin)
    /\ UNCHANGED kin /\ KeepBut("clean")

NextClean == CleanCall

SpecClean == InitClean /\ [][NextClean]_vars

\* ------------------------------ one SQL generation, model calls included
InitLlm ==
    /\ IdleBut("llm")
    /\ lin \in LlmInputs
    /\ lst = [NoLlmState EXCEPT !.pc = "completion"]

\* infer_llm, the try block: completion(...) is sent to the model endpoint.
LiteLLMCompletion ==
    /\ lst.pc = "completion"
    /\ lst' = IF lin.completion = "content"
              THEN [lst EXCEPT !.pc = "returned", !.requests = @ + 1,
                               !.ret = lin.content]
              ELSE [lst EXCEPT !.pc = "raw_http", !.requests = @ + 1]
    /\ UNCHANGED lin /\ KeepBut("llm")

\* infer_llm, the except block: requests.post to {api_url}/chat/completions.
RawHttpPost ==
    /\ lst.pc = "raw_http"
    /\ lst' = [lst EXCEPT !.pc = "returned", !.requests = @ + 1,
                          !.ret = raw_http_result(lin.post, lin.content)]
    /\ UNCHANGED lin /\ KeepBut("llm")

\* generate_sql_from_question from line 1711 on: validation, cleanup, and
\* the keyword fallback in the except branch.
HandOff ==
    /\ lst.pc = "returned"
    /\ lst' = [lst EXCEPT !.pc = "done",
                          !.sql = generate_sql_from_question(lst.ret, lin.q,
                                                             lin.s)]
    /\ UNCHANGED lin /\ KeepBut("llm")

NextLlm == LiteLLMCompletion \/ RawHttpPost \/ HandOff

SpecLlm == InitLlm /\ [][NextLlm]_vars

\* ------------------------- a grouped statement from quoting to metadata
InitMeta ==
    /\ IdleBut("meta")
    /\ \E dialect \in Dialects, all_columns \in SUBSET {"d", "e"},
          clause \in SeqsUpTo(GroupItems, MaxGroupCols),
          tail \in ClauseTails :
          min = [dialect |-> dialect, all_columns |-> all_columns,
                 clause |-> clause, tail |-> tail]
    /\ mout = [NoMetaOut EXCEPT !.pc = "quote"]

\* Step 6 of generate_sql_from_question.
QuoteIdentifiers ==
    /\ mout.pc = "quote"
    /\ mout' = [mout EXCEPT !.pc = "extract",
                            !.clause = quote_identifiers(min.clause,
                                           min.dialect, min.all_columns)]
    /\ UNCHANGED min /\ KeepBut("meta")

\* execute_query, line 2732: extract_query_metadata on the generated SQL.
ExtractMetadata ==
    /\ mout.pc = "extract"
    /\ mout' = [mout EXCEPT !.pc = "done",
                            !.group_by = extract_group_by(mout.clause,
                                                          min.tail)]
    /\ UNCHANGED min /\ KeepBut("meta")

NextMeta == QuoteIdentifiers \/ ExtractMetadata

SpecMeta == InitMeta /\ [][NextMeta]_vars

\* ------------------------------------------ upload_file, the insert loop
InitUpload ==
    /\ IdleBut("upload")
    /\ ust = UploadStart

\* One row of df.iterrows() whose INSERT succeeds.
InsertRow ==
    /\ ust.pc = "insert" /\ ust.idx < MaxUploadRows
    /\ LET counted == [ust EXCEPT !.idx = @ + 1, !.rows_inserted = @ + 1,
                                  !.pending = @ + 1]
       IN  ust' = IF counted.rows_inserted % CommitEvery = 0
                  THEN connection_commit(counted)
                  ELSE counted
    /\ KeepBut("upload")

\* One row whose INSERT raises: rollback and continue.
InsertRowFails ==
    /\ ust.pc = "insert" /\ ust.idx < MaxUploadRows
    /\ ust' = connection_rollback([ust EXCEPT !.idx = @ + 1])
    /\ KeepBut("upload")

\* The DataFrame (not empty) is exhausted: the final commit, and
\* rowsInserted=rows_inserted goes into the UploadResponse.
CommitAndReturn ==
    /\ ust.pc = "insert" /\ ust.idx >= 1
    /\ ust' = [connection_commit(ust) EXCEPT !.pc = "returned"]
    /\ KeepBut("upload")

NextUpload == InsertRow \/ InsertRowFails \/ CommitAndReturn

SpecUpload == InitUpload /\ [][NextUpload]_vars

\* --------------------------- two upload_file requests for the same project
InitUploads ==
    /\ IdleBut("uploads")
    /\ pst \in StoredSchemas
    /\ ups = [r \in Reqs |-> UploadReceived]

\* await get_project_by_id: the request's own Project object is hydrated
\* from the stored record.
GetProject(r) ==
    /\ ups[r].pc = "received"
    /\ ups' = [ups EXCEPT ![r] = [pc |-> "loaded", db_metadata |-> pst]]
    /\ UNCHANGED pst /\ KeepBut("uploads")

\* Table creation and the insert loop, up to the await of
\* call_metadata_assistant; an exception ends the request with HTTP 500.
CreateAndInsert(r) ==
    /\ ups[r].pc = "loaded"
    /\ \E next \in {"inserted", "failed"} :
          ups' = [ups EXCEPT ![r].pc = next]
    /\ UNCHANGED pst /\ KeepBut("uploads")

\* call_metadata_assistant returns; the new TableSchema is put into the
\* request's Project object.
BuildTableSchema(r) ==
    /\ ups[r].pc = "inserted"
    /\ ups' = [ups EXCEPT ![r] =
                  [pc |-> "built",
                   db_metadata |-> with_new_schema(ups[r].db_metadata,
                                                   upload_table_name(r))]]
    /\ UNCHANGED pst /\ KeepBut("uploads")

\* LocalProjects.update_project: the stored db_metadata is overwritten with
\* the Project object's list and committed; UploadResponse(success=True).
UpdateProject(r) ==
    /\ ups[r].pc = "built"
    /\ pst' = ups[r].db_metadata
    /\ ups' = [ups EXCEPT ![r].pc = "succeeded"]
    /\ KeepBut("uploads")

NextUploads ==
    \E r \in Reqs :
        \/ GetProject(r)
        \/ CreateAndInsert(r)
        \/ BuildTableSchema(r)
        \/ UpdateProject(r)

SpecUploads == InitUploads /\ [][NextUploads]_vars

\* ------------------ the same statement and hint given to both connectors
InitEquiv ==
    /\ IdleBut("equiv")
    /\ \E stmt \in {"ok", "driver_error"}, star \in BOOLEAN, known \in BOOLEAN,
          hint \in [HintColumns -> SUBSET Aggregations] :
          ein = [stmt |-> stmt, star |-> star, known |-> known, hint |-> hint]
    /\ eout = [d \in CONNECTOR_MAP |-> NotExecuted]

OracleExecuteQuery ==
    /\ ~eout["oracle"].done
    /\ eout' = [eout EXCEPT !["oracle"] = connector_outcome("oracle", ein)]
    /\ UNCHANGED ein /\ KeepBut("equiv")

PostgresExecuteQuery ==
    /\ ~eout["postgres"].done
    /\ eout' = [eout EXCEPT !["postgres"] = connector_outcome("postgres", ein)]
    /\ UNCHANGED ein /\ KeepBut("equiv")

NextEquiv == OracleExecuteQuery \/ PostgresExecuteQuery

SpecEquiv == InitEquiv /\ [][NextEquiv]_vars

\* ------------------------------------------------------------------ claims
Done(r) == req[r].pc = "done"

\* C1: every connection opened while serving /executequey (fresh run or
\* replay) is released when the request completes, on every exit path.
C1_ConnectionsReleased ==
    \A r \in Reqs :
        (req[r].kind \in {"fresh", "replay"} /\ Done(r)) => req[r].conn # "open"

\* C2: connector.execute_query runs each request's statement on a connection
\* opened from that request's own project profile.
C2_OwnConnection ==
    \A r \in Reqs : req[r].used \subseteq {req[r].proj}

\* Positions at which a coroutine is suspended in an await; it resumes as
\* soon as the event loop is free.
AwaitPoints == {"proj_wait", "cache_wait", "fetch_wait", "commit_wait",
                "refresh_wait", "rollback_wait", "chart_wait", "worker_done",
                "rchart_wait"}

\* C3: while a request waits on the generation call or on a query execution
\* it does not occupy the event loop, so every other request suspended in an
\* await can take its next step.
C3_SlowCallsOffLoop ==
    \A r \in Reqs, q \in Reqs :
        (r # q /\ req[r].pc \in {"llm_wait", "db_wait", "worker_wait"}
            /\ req[q].pc \in AwaitPoints)
        => loop # r

\* C4: when the second-stage call fails (also when ChatModel reports the
\* failure as returned text) or its output cannot be parsed, the answer is
\* the templated one; raw model text is never the answer.
C4_TemplatedOnFailure ==
    \A r \in Reqs :
        req[r].ansIn \in {"call_failed", "unparseable"}
            => req[r].answer = "templated"

NoSubmission(r) == \A i \in 1 .. MaxQuestions : req[r].subs[i] = 0

\* C5: a fresh /executequey run whose generation failed on a question without
\* trigger word ends with a generation failure; no connection is opened and
\* no statement is submitted.
C5_GenFailureNoExecution ==
    \A r \in Reqs :
        (req[r].kind = "fresh" /\ req[r].genIn = "fail_notrig")
            => /\ Done(r)
               /\ req[r].outcome = "gen_failure"
               /\ req[r].conn = "none"
               /\ NoSubmission(r)

C5_Witness ==
    \E r \in Reqs :
        req[r].kind = "fresh" /\ req[r].genIn = "fail_notrig" /\ Done(r)

TriggerMatched(q, s) ==
    \/ q.avg /\ s.salary
    \/ q.total /\ s.salary
    \/ q.count

\* C6: generate_sql_from_question returns a fallback statement only when the
\* model-based generation failed and a trigger matched (average and total
\* only with a salary column); a failed generation without matching trigger
\* raises; a successful generation never yields a fallback statement.
C6_FallbackOnlyOnFailure ==
    gout # "none" =>
        /\ gout \in Fallbacks =>
              ~LlmValid(gin.out) /\ TriggerMatched(gin.q, gin.s)
        /\ gout \in {"fb_avg", "fb_avg_where"} => gin.q.avg /\ gin.s.salary
        /\ gout = "fb_sum" => gin.q.total /\ gin.s.salary
        /\ gout = "fb_count" => gin.q.count
        /\ (~LlmValid(gin.out) /\ ~TriggerMatched(gin.q, gin.s)) => gout = "raise"
        /\ LlmValid(gin.out) => gout = "llm"

C6_Witness ==
    /\ gout \in Fallbacks
    /\ ~LlmValid(gin.out)
    /\ gin.q.avg /\ gin.q.count /\ ~gin.s.salary

ExecutionFailed(r) ==
    IF req[r].kind = "report" THEN req[r].xerr > 0 ELSE req[r].res = "error"

C8_SaveNeverFails ==
    \A r \in Reqs :
        (req[r].kind = "fresh" /\ Done(r) /\ req[r].answer # "none")
            => req[r].outcome = "ok"

SameKey(f, q) == req[f].proj = req[q].proj /\ req[f].rid = req[q].rid

\* C9 as stated: after /executequey returned success with response_id R for
\* project P, a later replay or /graph with (P, R) never answers that the
\* cached response is not found.
C9_ReplayFindsRecord ==
    \A q \in Reqs :
        (req[q].kind \in {"replay", "graph"}
            /\ \E f \in req[q].after : SameKey(f, q))
        => req[q].outcome # "cache_404"

\* C9 amended: after /executequey returned success with response_id R for
\* project P and save_query_response committed its record, a later replay or
\* /graph with (P, R) whose cache query does not fail finds the record and
\* goes on to re-execute its SQL.
C9_ReplayFindsSavedRecord ==
    \A q \in Reqs :
        (req[q].kind \in {"replay", "graph"}
            /\ req[q].lookup \in {"hit", "miss"}
            /\ \E f \in req[q].after : SameKey(f, q) /\ req[f].saves = 1)
        => req[q].lookup = "hit" /\ req[q].outcome # "cache_404"

C9_Witness ==
    \E q \in Reqs :
        /\ req[q].kind \in {"replay", "graph"}
        /\ \E f \in req[q].after : SameKey(f, q) /\ req[f].saves = 1
        /\ req[q].lookup = "hit"
        /\ req[q].res = "rows"

\* C10: a record is written only by a fresh run that completed generation,
\* execution, statistics and answer synthesis, at most once per request; runs
\* ending in generation or execution failure write none; replays and /graph
\* write none and never invoke SQL generation.
C10_RecordOnlyAfterSuccess ==
    /\ \A i \in RespIds :
          cache[i] # NoRec =>
              LET f == cache[i].src
              IN  /\ req[f].kind = "fresh"
                  /\ req[f].rid = i /\ req[f].proj = cache[i].pid
                  /\ req[f].sqlSrc # "none"
                  /\ req[f].res \in {"rows", "empty"}
                  /\ req[f].answer # "none"
                  /\ req[f].saves = 1
    /\ \A r \in Reqs :
          /\ req[r].saves <= 1
          /\ req[r].saves = 1 => cache[req[r].rid].src = r
          /\ req[r].outcome \in {"gen_failure", "exec_failure", "exec_failure_raw"}
                => req[r].saves = 0
          /\ req[r].kind \in {"replay", "graph"}
                => req[r].saves = 0 /\ req[r].gens = 0

C10_Witness ==
    \E r \in Reqs :
        /\ req[r].kind = "fresh" /\ req[r].outcome = "ok" /\ req[r].saves = 1
        /\ cache[req[r].rid] = [pid |-> req[r].proj, src |-> r]

\* C11: once response_logs holds a record for a response identifier, no step
\* of any request (a second save with the same identifier, a lookup, a
\* replay, /graph) changes or removes it: the record keeps the project and
\* the question, SQL and answer of the request that wrote it.
C11_RecordImmutable ==
    [][\A i \in RespIds : cache[i] # NoRec => cache'[i] = cache[i]]_vars

C11_Witness ==
    \E f \in Reqs, g \in Reqs :
        /\ f # g /\ req[f].saves = 1 /\ req[f].rid = req[g].rid
        /\ cache[req[f].rid].src = f
        /\ req[g].kind = "fresh" /\ Done(g)
        /\ req[g].answer # "none" /\ req[g].saves = 0

C13_MissAndFailureDistinct ==
    \A r \in Reqs :
        req[r].kind \in {"replay", "graph"} =>
            /\ req[r].lookup = "miss" =>
                  /\ Done(r) /\ req[r].outcome = "cache_404"
                  /\ req[r].conn = "none" /\ NoSubmission(r)
            /\ req[r].res = "error" =>
                  /\ req[r].lookup = "hit"
                  /\ Done(r) /\ req[r].outcome = "exec_failure_raw"
            /\ req[r].outcome = "cache_404" =>
                  req[r].lookup \in {"miss", "failed"} /\ req[r].res = "none"

C13_Witness ==
    \E r \in Reqs :
        /\ req[r].kind = "replay" /\ req[r].lookup = "hit"
        /\ req[r].res = "error" /\ req[r].outcome = "exec_failure_raw"

\* Whether anything goes wrong inside run_query.
SomethingFails ==
    \/ xin.conn # "open"
    \/ xin.stmt = "driver_error"
    \/ xin.star /\ xin.aggs # "none" /\ xin.stats = "driver_error"
    \/ xin.star /\ xin.aggs = "avg_only" /\ xin.dialect = "oracle"
    \/ xin.frame = "error"

\* C14: execute_query of either connector never raises: when the driver,
\* the statistics block or the result building fails it returns
\* (None, message), otherwise (ResultSet, None).
C14_NeverRaises ==
    xout # NoConnOut =>
        /\ xout.raised = "none"
        /\ SomethingFails => xout.result = "None" /\ xout.message = "text"
        /\ ~SomethingFails => xout.result = "ResultSet" /\ xout.message = "none"

C14_Witness ==
    /\ xout = ReturnMessage
    /\ xin.dialect = "oracle" /\ xin.conn = "open" /\ xin.stmt = "ok"
    /\ xin.star /\ xin.aggs = "avg_only" /\ xin.stats = "ok"

NoNative(m) == \A k \in 1 .. Len(m) : m[k] # "native"

\* C15: every driver error raised while executing SQL in /executequey
\* (fresh run or replay) or /graph reaches the caller with the characters
\* outside ASCII removed from the exception text.
C15_DriverTextSanitized ==
    \A r \in Reqs :
        (req[r].kind \in {"fresh", "replay", "graph"} /\ req[r].res = "error"
            /\ Done(r))
        => NoNative(req[r].excText)

\* C16: a fresh /executequey run that fails at execution, after its SQL was
\* generated, answers with one message and with the generated SQL.
C16_FailureCarriesSql ==
    \A r \in Reqs :
        (req[r].kind = "fresh" /\ req[r].sqlSrc # "none"
            /\ req[r].outcome = "exec_failure")
        => /\ "detail" \in response_keys(req[r].outcome)
           /\ "llm_generated_sql" \in response_keys(req[r].outcome)

\* C17: the generation failure reported when the model call failed and the
\* fallback produced nothing contains no text of the underlying exception.
C17_NoRawGenerationText ==
    \A r \in Reqs :
        req[r].outcome = "gen_failure" => req[r].excText = <<>>

\* C18: every row built from a cursor has as many values as the cursor
\* reported columns, also when a column name is reported twice: the row
\* records of /executequey and the rows of the connector's ResultSet.
C18_RowLengths ==
    /\ rout.dicts = "built" =>
          \A i \in 1 .. Len(rout.db_result) :
              Cardinality(DOMAIN rout.db_result[i]) = Len(rin.columns)
    /\ rout.lists = "built" =>
          \A i \in 1 .. Len(rout.rows) : Len(rout.rows[i]) = Len(rin.columns)

StatsCalled == sout.error # "not_called"

\* Index of the first column whose value in the first row is a number.
FirstNumeric ==
    CHOOSE j \in 1 .. Len(sin.columns) :
        /\ sin.rows[1][sin.columns[j]].t = "int"
        /\ \A h \in 1 .. (j - 1) : sin.rows[1][sin.columns[h]].t # "int"

RECURSIVE ColumnTotal(_, _)
ColumnTotal(c, n) ==
    IF n = 0 THEN 0
    ELSE ColumnTotal(c, n - 1)
            + (IF sin.rows[n][c].t = "int" THEN sin.rows[n][c].v ELSE 0)

GroupedWithNumbers ==
    /\ sin.rows # <<>> /\ sin.group_by
    /\ \E j \in 1 .. Len(sin.columns) : sin.rows[1][sin.columns[j]].t # "int"
    /\ \E j \in 1 .. Len(sin.columns) : sin.rows[1][sin.columns[j]].t = "int"

\* C19: for a non-empty result with a declared group-by, a category column
\* and a numeric column (by the first row's value types), total_categories
\* is the number of rows, grand_total the sum of the first numeric column
\* over all rows (NULL adds nothing) and average_per_category the quotient
\* grand_total / total_categories.
C19_GroupedTotals ==
    (StatsCalled /\ GroupedWithNumbers) =>
        LET n == Len(sin.rows)
            total == ColumnTotal(sin.columns[FirstNumeric], n)
        IN  /\ sout.total_categories = Some(n)
            /\ sout.grand_total = Some(total)
            /\ ~sout.average_per_category.null
            /\ sout.average_per_category.num = total
            /\ sout.average_per_category.den = n

\* Five groups whose numeric column sums to 500: average 100.
C19_Witness ==
    /\ StatsCalled /\ GroupedWithNumbers
    /\ Len(sin.rows) = 5
    /\ sout.grand_total = Some(500)
    /\ sout.average_per_category.num = 100 * sout.average_per_category.den

\* C20: generate_statistics returns for every result (no exception, no
\* division by zero); an empty result gives total_rows = 0; whenever the
\* category count is 0 the average is null.
C20_NeverFails ==
    StatsCalled =>
        /\ sout.error = "none"
        /\ sout.total_rows = Len(sin.rows)
        /\ sin.rows = <<>> => sout.total_rows = 0
        /\ sout.total_categories = Some(0) => sout.average_per_category.null

C20_Witness ==
    /\ StatsCalled /\ sin.rows = <<>> /\ sin.group_by
    /\ sout.total_rows = 0 /\ sout.total_categories = Some(0)
    /\ sout.average_per_category.null

\* C21: every schema table named <base>_<8 hex> has each occurrence of
\* <base> (any letter case) directly after FROM, JOIN, UPDATE or INTO
\* rewritten into that table's own quoted physical name, also when several
\* tables share the base name.
C21_EveryTableRewritten ==
    fout.calls >= 1 =>
        \A n \in 1..Len(fin.db_metadata) :
            LET actual_name == fin.db_metadata[n]
                base_name == strip_hash_suffix(actual_name)
            IN  base_name # actual_name =>
                    \A i \in 1..Len(fin.sql) :
                        (\E k \in 1..Len(FixKeywords) :
                            fix_match(FixKeywords[k], base_name, fin.sql, i))
                        => fout.first[i + 1] = Quoted(actual_name)

\* C22: the fix is idempotent: run on its own output it changes nothing.
C22_Idempotent ==
    fout.calls = 2 => fout.second = fout.first

\* A base name (A_<h1>) that is also another table's physical name, and a
\* statement the first run did rewrite.
C22_Witness ==
    /\ fout.calls = 2
    /\ \E m, n \in 1..Len(fin.db_metadata) :
          /\ strip_hash_suffix(fin.db_metadata[m]) = fin.db_metadata[n]
          /\ strip_hash_suffix(fin.db_metadata[n]) # fin.db_metadata[n]
    /\ fout.first # fin.sql

\* C23: the statement the cleanup lets through never ends with a dangling
\* UNION or UNION ALL.
C23_NoDanglingUnion ==
    (kout.done /\ kout.ok) =>
        LET n == Len(kout.sql)
        IN  /\ kout.sql[n] # "UNION"
            /\ ~(n >= 2 /\ kout.sql[n - 1] = "UNION" /\ kout.sql[n] = "ALL")

\* Nesting depth of position i: parentheses opened and not closed before it.
paren_depth(sql, i) ==
    Cardinality({j \in 1..(i - 1) : sql[j] = "("})
      - Cardinality({j \in 1..(i - 1) : sql[j] = ")"})

top_level_selects(sql) ==
    {i \in select_matches(sql) : paren_depth(sql, i) = 0}

\* C24: a model output with two or more top-level SELECT keywords is cut to
\* the text from the first of them up to, not including, the second (less a
\* trailing UNION ALL); a SELECT inside a subquery does not count, so with
\* fewer than two top-level SELECTs nothing is cut.
C24_CutAtSecondTopLevelSelect ==
    LET tops == top_level_selects(kin)
    IN  /\ (kout.done /\ Cardinality(tops) >= 2) =>
            LET span == SubSeq(kin, nth_position(tops, 1),
                               nth_position(tops, 2) - 1)
            IN  kout.ok /\ kout.sql \in {span, remove_trailing_union(span)}
        /\ (kout.done /\ kout.ok /\ Cardinality(tops) < 2) =>
            kout.sql = remove_trailing_union(kin)

\* C25: one SQL generation sends one request to the model: once a request
\* has been sent no further one follows, and a failed call is followed by
\* the hand-off to the fallback.
C25_SingleModelRequest ==
    [][/\ lst.requests >= 1 => lst'.requests = lst.requests
       /\ (lst.pc = "completion" /\ lin.completion = "raises")
              => lst'.pc = "returned"]_vars

\* The numbers held by the first numeric column over all rows of the call.
C26_Numbers ==
    {sin.rows[i][sout.numeric_columns[1]].v :
        i \in {j \in 1 .. Len(sin.rows) :
                  is_number(sin.rows[j][sout.numeric_columns[1]])}}

\* C26: when category statistics are computed, highest_category is a row
\* whose numeric value is the maximum of the numeric column over all rows
\* and lowest_category one whose numeric value is the minimum, each given as
\* {category value, numeric value}, also when rows hold NULL in that column.
C26_ExtremesAreMaxAndMin ==
    (StatsCalled /\ ~sout.highest_category.null) =>
        LET category_col == sout.category_columns[1]
            value_col == sout.numeric_columns[1]
            entries(best(_)) ==
                {category_entry(sin.rows[i], category_col, value_col) :
                    i \in {j \in 1 .. Len(sin.rows) :
                              /\ is_number(sin.rows[j][value_col])
                              /\ best(sin.rows[j][value_col].v)}}
            is_max(n) == \A m \in C26_Numbers : m <= n
            is_min(n) == \A m \in C26_Numbers : m >= n
        IN  /\ sout.highest_category \in entries(is_max)
            /\ sout.lowest_category \in entries(is_min)

\* C27: for every statement with a GROUP BY clause, extract_query_metadata
\* returns as group_by the clause's columns (last dotted segment each), also
\* when the quoting step has put them between double quotes, so that the
\* statistics step gets a declared group-by for every grouped query.
C27_GroupByExtracted ==
    (mout.pc = "done" /\ min.clause # <<>>) =>
        /\ ~mout.group_by.null
        /\ mout.group_by.cols =
              [i \in 1 .. Len(min.clause) |->
                  [name |-> min.clause[i].name, glued |-> "none"]]

\* C28: the rowsInserted that upload_file returns equals the number of rows
\* committed to the new table, whatever rows succeed and fail.
C28_RowsInsertedAreCommitted ==
    ust.pc = "returned" => ust.rows_inserted = ust.committed

\* C29: when two concurrent upload_file requests for the same project both
\* succeed, the stored db_metadata holds the TableSchema of both, under
\* every interleaving.
C29_NoMetadataLost ==
    (\A r \in Reqs : ups[r].pc = "succeeded") =>
        \A r \in Reqs :
            \E i \in 1 .. Len(pst) : pst[i] = upload_table_name(r)

\* C30: for the same main-query outcome and the same schema hint the Oracle
\* and the Postgres connector return the same kind of outcome and the same
\* statistics keys with the same min / max / avg / sum entries.
C30_ConnectorsAgree ==
    (eout["oracle"].done /\ eout["postgres"].done) =>
        /\ eout["oracle"].kind = eout["postgres"].kind
        /\ eout["oracle"].keys = eout["postgres"].keys

====
